---- MODULE Spec2Model ----
(***************************************************************************)
(* Model of src/main.rs: one invocation of the stake-pool command line.    *)
(* main() reads the payer and the pool, runs update_stake_pool (the        *)
(* maintenance transactions) and then the requested subcommand             *)
(* (deposit_sol, increase_validator_stake_with_vote or                     *)
(* decrease_validator_stake_with_vote).  Every unwrap()/expect() of the    *)
(* source is a panic: the invocation ends in pc = "failed".  The ledger is *)
(* the sequence of transactions handed to the RPC node, each with the      *)
(* status the node gives it.  Spec is one invocation, FairSpec one         *)
(* invocation whose calls all return, SpecRerun an invocation that the     *)
(* caller runs again after it failed.                                      *)
(***************************************************************************)
EXTENDS Integers, Sequences, FiniteSets, TLC

(***************************************************************************)
(* Bounds of the model.                                                    *)
(***************************************************************************)
\* longest validator list held by the pool account on the ledger (vote accounts
\* are unique within a list, so VoteAccounts bounds its length as well)
MaxValidators == 2
\* most UpdateValidatorListBalance instructions the encoder returns
MaxUpdateInstructions == 2
\* most invocations the caller makes for one request: the first and its re-runs
MaxRuns == 2

(***************************************************************************)
(* Option values: None is the empty sequence, Some(x) the singleton.       *)
(***************************************************************************)
None == <<>>

Some(x) == <<x>>

(***************************************************************************)
(* Keys, addresses and program ids.                                        *)
(***************************************************************************)
\* data.payer_keypair, read from ~/.config/solana/id.json
payer_keypair == "payer"

\* a staker authority of the pool that is not the local payer
other_staker == "other_staker"

\* Keypair::new(): a random key, distinct from every key generated before and
\* from every other key; n tells the invocations apart
Keypair_new(n) == "user_sol_transfer_" \o ToString(n)

\* args.pool_address
stake_pool_pubkey == "pool_address"

spl_stake_pool_id == "spl_stake_pool"

spl_token_id == "spl_token"

\* vote accounts a validator entry or the --vote-account argument may name
VoteAccounts == {"vote_A", "vote_B"}

\* spl_stake_pool::find_withdraw_authority_program_address(..).0
find_withdraw_authority_program_address(program_id, pool) ==
    <<"withdraw_authority", program_id, pool>>

\* get_associated_token_address(owner, mint)
get_associated_token_address(owner, mint) ==
    <<"associated_token_account", owner, mint>>

(***************************************************************************)
(* Amounts.  An f64 is NaN, an infinity or (-1)^neg * m * 2^e with         *)
(* m < 2^53.  Integers wider than TLC's 32 bits are base-10^9 limbs, most  *)
(* significant first: two limbs for a mantissa, three for a u64 and for    *)
(* the 53-bit significand of a product.                                    *)
(***************************************************************************)
LAMPORTS_PER_SOL == 1000000000

LimbBase == LAMPORTS_PER_SOL

\* u64::MAX = 18_446_744_073_709_551_615
U64_MAX == <<18, 446744073, 709551615>>

U64_ZERO == <<0, 0, 0>>

F64Finite(neg, m, e) == [cls |-> "fin", neg |-> neg, m |-> m, e |-> e]

F64NaN == [cls |-> "nan", neg |-> FALSE, m |-> <<0, 0>>, e |-> 0]

F64Inf(neg) == [cls |-> "inf", neg |-> neg, m |-> <<0, 0>>, e |-> 0]

\* 1.0, 2.3 (= 2589569785738035 * 2^-50), 3 * 2^-31 (1.39.. lamports),
\* 2^35 (whose lamports exceed u64), -1.0, NaN, +inf
AmountInputs ==
    { F64Finite(FALSE, <<0, 1>>, 0),
      F64Finite(FALSE, <<2589569, 785738035>>, -50),
      F64Finite(FALSE, <<0, 3>>, -31),
      F64Finite(FALSE, <<0, 1>>, 35),
      F64Finite(TRUE, <<0, 1>>, 0), F64NaN, F64Inf(FALSE) }

\* 2^53 = 9_007_199_254_740_992: an f64 significand is below it
TwoPow53 == <<0, 9007199, 254740992>>

LimbsGreater(a, b) ==
    \/ a[1] > b[1]
    \/ a[1] = b[1] /\ a[2] > b[2]
    \/ a[1] = b[1] /\ a[2] = b[2] /\ a[3] > b[3]

LimbsDouble(a) ==
    LET d0 == 2 * a[3]
        d1 == 2 * a[2] + (d0 \div LimbBase)
        d2 == 2 * a[1] + (d1 \div LimbBase)
    IN  <<d2, d1 % LimbBase, d0 % LimbBase>>

\* a halving that rounds up instead of truncating
LimbsHalve_up(a) ==
    LET h1 == a[2] + (a[1] % 2) * LimbBase
        h0 == a[3] + (h1 % 2) * LimbBase + 1
    IN  <<a[1] \div 2, h1 \div 2, h0 \div 2>>

LimbsHalve(a) ==
    LET h1 == a[2] + (a[1] % 2) * LimbBase
        h0 == a[3] + (h1 % 2) * LimbBase
    IN  <<a[1] \div 2, h1 \div 2, h0 \div 2>>

RECURSIVE LimbsScale(_, _)
\* floor(a * 2^e), saturated at u64::MAX
LimbsScale(a, e) ==
    IF e = 0 THEN a
    ELSE IF a = U64_ZERO THEN U64_ZERO
    ELSE IF e < 0 THEN LimbsScale(LimbsHalve(a), e + 1)
    ELSE IF LimbsGreater(LimbsDouble(a), U64_MAX) THEN U64_MAX
    ELSE LimbsScale(LimbsDouble(a), e - 1)

LimbsIncrement(a) ==
    IF a[3] + 1 < LimbBase THEN <<a[1], a[2], a[3] + 1>>
    ELSE IF a[2] + 1 < LimbBase THEN <<a[1], a[2] + 1, 0>>
    ELSE <<a[1] + 1, 0, 0>>

RECURSIVE F64Round(_, _, _, _)
\* a * 2^e rounded to a 53-bit significand, ties to even: `guard` is the last
\* bit shifted out, `sticky` tells whether a 1 was shifted out before it
F64Round(a, e, guard, sticky) ==
    IF LimbsGreater(TwoPow53, a)
    THEN [limbs |-> IF guard /\ (sticky \/ a[3] % 2 = 1) THEN LimbsIncrement(a) ELSE a,
          e |-> e]
    ELSE F64Round(LimbsHalve(a), e + 1, a[3] % 2 = 1, sticky \/ guard)

\* sol * (LAMPORTS_PER_SOL as f64): the product m * 10^9 * 2^e rounded to the
\* nearest f64, held as the limbs of its significand and its exponent
F64MulLamportsPerSol(sol) ==
    [cls |-> sol.cls, neg |-> sol.neg,
     limbs |-> F64Round(<<sol.m[1], sol.m[2], 0>>, sol.e, FALSE, FALSE).limbs,
     e |-> F64Round(<<sol.m[1], sol.m[2], 0>>, sol.e, FALSE, FALSE).e]

\* Rust's `f64 as u64`: truncates toward zero, saturates, NaN becomes 0
F64AsU64(x) ==
    IF x.cls = "nan" THEN U64_ZERO
    ELSE IF x.neg THEN U64_ZERO
    ELSE IF x.cls = "inf" THEN U64_MAX
    ELSE LimbsScale(x.limbs, x.e)

\* solana_native_token::sol_to_lamports: (sol * LAMPORTS_PER_SOL as f64) as u64
sol_to_lamports(sol) == F64AsU64(F64MulLamportsPerSol(sol))

(***************************************************************************)
(* On-chain records, as get_stake_pool and get_validator_list decode them. *)
(***************************************************************************)
ValidatorStakeInfos ==
    [vote_account_address : VoteAccounts,
     validator_seed_suffix : {0, 3},
     transient_seed_suffix : {0, 7}]

\* validator lists of the ledger: vote accounts are unique within a list
ValidatorLists ==
    UNION { { l \in [1..n -> ValidatorStakeInfos] :
                \A i, j \in 1..n : i # j =>
                    l[i].vote_account_address # l[j].vote_account_address } :
            n \in 0..MaxValidators }

StakePools ==
    [manager : {"manager"},
     staker : {payer_keypair, other_staker},
     pool_mint : {"pool_mint"},
     reserve_stake : {"reserve_stake"},
     manager_fee_account : {"manager_fee_account"},
     validator_list : {"validator_list_address"}]

RECURSIVE FindFrom(_, _, _)
FindFrom(list, vote_account, i) ==
    IF i > Len(list) THEN None
    ELSE IF list[i].vote_account_address = vote_account THEN Some(list[i])
    ELSE FindFrom(list, vote_account, i + 1)

\* a lookup that falls back to the first entry when the vote account is absent
find_or_first(list, vote_account) ==
    IF FindFrom(list, vote_account, 1) = None /\ Len(list) > 0
    THEN Some(list[1])
    ELSE FindFrom(list, vote_account, 1)

\* ValidatorList::find: the first entry with that vote account, if any
find(list, vote_account) == FindFrom(list, vote_account, 1)

\* a seed that is passed on even when it is 0
NonZeroU32_new_unchecked(n) == Some(n)

\* NonZeroU32::new
NonZeroU32_new(n) == IF n = 0 THEN None ELSE Some(n)

(***************************************************************************)
(* Instruction encoders.  Each instruction carries `signers`, the accounts *)
(* its account metas mark as signers.                                      *)
(***************************************************************************)
\* system_instruction::transfer
transfer(from, to, lamports) ==
    [kind |-> "Transfer", from |-> from, to |-> to, lamports |-> lamports,
     signers |-> {from}]

\* spl_stake_pool::instruction::deposit_sol
deposit_sol_instruction(program_id, pool, withdraw_authority, reserve_stake, lamports_from, pool_tokens_to, manager_fee_account, referrer_pool_tokens_account, pool_mint, token_program_id, amount) ==
    [kind |-> "DepositSol", program_id |-> program_id, stake_pool |-> pool,
     withdraw_authority |-> withdraw_authority, reserve_stake |-> reserve_stake,
     lamports_from |-> lamports_from, pool_tokens_to |-> pool_tokens_to,
     manager_fee_account |-> manager_fee_account,
     referrer_pool_tokens_account |-> referrer_pool_tokens_account,
     pool_mint |-> pool_mint, token_program_id |-> token_program_id,
     amount |-> amount, signers |-> {lamports_from}]

\* the arguments of increase_/decrease_additional_validator_stake_with_vote;
\* the pool's staker authority must sign
StakeAdjustment(kind, program_id, pool, pool_address, vote_account, lamports, validator_stake_seed, transient_stake_seed, last_argument) ==
    [kind |-> kind, program_id |-> program_id, stake_pool |-> pool_address,
     staker |-> pool.staker, vote_account |-> vote_account,
     lamports |-> lamports, validator_stake_seed |-> validator_stake_seed,
     transient_stake_seed |-> transient_stake_seed,
     last_argument |-> last_argument, signers |-> {pool.staker}]

\* spl_stake_pool::instruction::update_stake_pool, first component: n
\* UpdateValidatorListBalance instructions, none of them with a signer
UpdateListInstructions(n) ==
    [k \in 1..n |-> [kind |-> "UpdateValidatorListBalance", chunk |-> k,
                     signers |-> {}]]

\* spl_stake_pool::instruction::update_stake_pool, second component
FinalInstructions ==
    << [kind |-> "UpdateStakePoolBalance", signers |-> {}],
       [kind |-> "CleanupRemovedValidatorEntries", signers |-> {}] >>

(***************************************************************************)
(* Transaction::new(signers, message, recent_blockhash): signs the message *)
(* with every keypair given.  It panics when a keypair is no signer of the *)
(* message or a required signature stays missing; a keypair given twice    *)
(* signs the same slot twice.                                              *)
(***************************************************************************)
SeqRange(s) == { s[i] : i \in 1..Len(s) }

RequiredSigners(instructions, fee_payer) ==
    {fee_payer} \cup UNION { instructions[i].signers : i \in 1..Len(instructions) }

\* a transaction signed by its fee payer alone, whatever it requires
Transaction_new_fee_payer_only(signers, instructions, fee_payer) ==
    Some([instructions |-> instructions, fee_payer |-> fee_payer,
          signatures |-> {fee_payer}])

Transaction_new(signers, instructions, fee_payer) ==
    IF SeqRange(signers) = RequiredSigners(instructions, fee_payer)
    THEN Some([instructions |-> instructions, fee_payer |-> fee_payer,
               signatures |-> SeqRange(signers)])
    ELSE None

(***************************************************************************)
(* State.                                                                  *)
(***************************************************************************)
VARIABLES
    pc,                        \* where the invocation stands
    ret,                       \* where it resumes once the awaited transaction is confirmed
    err,                       \* the error of the panic that ended it, or "none"
    failed_at,                 \* the pc at which it panicked, or "none"
    args,                      \* the parsed command line (args.command)
    chain_stake_pool,          \* the pool account on the ledger
    chain_validator_list,      \* the validator-list account on the ledger
    ledger,                    \* the transactions handed to the RPC node, in order
    update_list_instructions,  \* update_stake_pool: what is left after split_off
    last_instruction,          \* update_stake_pool: what split_off returned
    final_instructions,        \* update_stake_pool: the pool-level instructions
    next_update,               \* update_stake_pool: position of the for loop
    stake_pool,                \* the subcommand's get_stake_pool result
    validator_list,            \* the subcommand's get_validator_list result
    lamports,                  \* the subcommand's converted amount
    validator_stake_info,      \* the entry the subcommand found
    update_fetched_at,         \* update_stake_pool: length of the ledger when it
                               \* fetched the pool and the validator list
    command_fetched_at,        \* the same for the fetches of the subcommand
    run                        \* which invocation of the command line this is

vars ==
    <<pc, ret, err, failed_at, args, chain_stake_pool, chain_validator_list, ledger,
      update_list_instructions, last_instruction, final_instructions, next_update,
      stake_pool, validator_list, lamports, validator_stake_info,
      update_fetched_at, command_fetched_at, run>>

update_vars ==
    <<update_list_instructions, last_instruction, final_instructions, next_update,
      update_fetched_at>>

command_vars ==
    <<stake_pool, validator_list, lamports, validator_stake_info, command_fetched_at>>

chain_vars == <<args, chain_stake_pool, chain_validator_list, run>>

\* the Command enum with the fields of its variant
Commands ==
    [command : {"DepositSol"}, amount : AmountInputs]
    \cup [command : {"IncreaseValidatorStake", "DecreaseValidatorStake"},
          vote_acount : VoteAccounts, amount : AmountInputs]

\* errors of client.get_account(..).unwrap() and deserialize(..).unwrap()
FetchErrors == {"AccountNotFound", "DecodeError"}

Init ==
    /\ pc = "main"
    /\ ret = "none"
    /\ err = "none"
    /\ failed_at = "none"
    /\ args \in Commands
    /\ chain_stake_pool \in StakePools
    /\ chain_validator_list \in ValidatorLists
    /\ ledger = <<>>
    /\ update_list_instructions = <<>>
    /\ last_instruction = <<>>
    /\ final_instructions = <<>>
    /\ next_update = 1
    /\ stake_pool = None
    /\ validator_list = None
    /\ lamports = None
    /\ validator_stake_info = None
    /\ update_fetched_at = None
    /\ command_fetched_at = None
    /\ run = 1

\* a panic: unwrap() or expect() on an error
Panic(kind) ==
    /\ pc' = "failed"
    /\ err' = kind
    /\ failed_at' = pc
    /\ ret' = ret

(***************************************************************************)
(* send_instructions: fetch a blockhash, build and sign one transaction of *)
(* all the instructions, hand it to the node once; with `wait` the call    *)
(* returns only when the node reports it confirmed.  `next` is where the   *)
(* caller goes on.                                                         *)
(***************************************************************************)
\* a submitter that sends a rejected transaction a second time
send_instructions_resend(instructions, fee_payer, signers, wait, next) ==
    \/ /\ Panic("RpcError")
       /\ ledger' = ledger
    \/ /\ Transaction_new(signers, instructions, fee_payer) = None
       /\ Panic("SignerError")
       /\ ledger' = ledger
    \/ /\ Transaction_new(signers, instructions, fee_payer) # None
       /\ \E first \in {"none", "rejected"} :
              ledger' =
                  (IF first = "rejected"
                   THEN Append(ledger,
                            [tx |-> Transaction_new(signers, instructions, fee_payer)[1],
                             wait |-> wait, status |-> "rejected"])
                   ELSE ledger)
                  \o <<[tx |-> Transaction_new(signers, instructions, fee_payer)[1],
                        wait |-> wait, status |-> "pending"]>>
       /\ pc' = IF wait THEN "confirming" ELSE next
       /\ ret' = IF wait THEN next ELSE ret
       /\ UNCHANGED <<err, failed_at>>

send_instructions(instructions, fee_payer, signers, wait, next) ==
    \/ \* get_latest_blockhash_with_commitment(..).unwrap() fails
       /\ Panic("RpcError")
       /\ ledger' = ledger
    \/ \* Transaction::new panics
       /\ Transaction_new(signers, instructions, fee_payer) = None
       /\ Panic("SignerError")
       /\ ledger' = ledger
    \/ \* the node rejects the transaction
       /\ Transaction_new(signers, instructions, fee_payer) # None
       /\ ledger' = Append(ledger,
              [tx |-> Transaction_new(signers, instructions, fee_payer)[1],
               wait |-> wait, status |-> "rejected"])
       /\ Panic("SubmissionError")
    \/ \* the node accepts the transaction
       /\ Transaction_new(signers, instructions, fee_payer) # None
       /\ ledger' = Append(ledger,
              [tx |-> Transaction_new(signers, instructions, fee_payer)[1],
               wait |-> wait, status |-> "pending"])
       /\ pc' = IF wait THEN "confirming" ELSE next
       /\ ret' = IF wait THEN next ELSE ret
       /\ UNCHANGED <<err, failed_at>>

\* a wait that returns whether or not the transaction was confirmed
confirm_transaction_unchecked ==
    /\ pc = "confirming"
    /\ pc' = ret
    /\ UNCHANGED <<ret, err, failed_at, ledger, chain_vars, update_vars, command_vars>>

\* send_and_confirm_transaction_with_spinner returns Ok
confirm_transaction ==
    /\ pc = "confirming"
    /\ ledger[Len(ledger)].status = "confirmed"
    /\ pc' = ret
    /\ UNCHANGED <<ret, err, failed_at, ledger, chain_vars, update_vars, command_vars>>

\* a wait that never gives up on a transaction the node does not confirm
confirm_wait_forever ==
    /\ pc = "confirming"
    /\ ledger[Len(ledger)].status = "pending"
    /\ UNCHANGED vars

\* send_and_confirm_transaction_with_spinner returns Err: the blockhash expired
\* before the node reported the transaction confirmed
confirm_timeout ==
    /\ pc = "confirming"
    /\ ledger[Len(ledger)].status = "pending"
    /\ Panic("ConfirmationTimeout")
    /\ UNCHANGED <<ledger, chain_vars, update_vars, command_vars>>

\* the ledger confirms a transaction it accepted
ledger_confirm ==
    \E k \in 1..Len(ledger) :
        /\ ledger[k].status = "pending"
        /\ ledger' = [ledger EXCEPT ![k].status = "confirmed"]
        /\ UNCHANGED <<pc, ret, err, failed_at, chain_vars, update_vars, command_vars>>

(***************************************************************************)
(* main, up to the call of update_stake_pool.                              *)
(***************************************************************************)
main ==
    /\ pc = "main"
    /\ \/ /\ pc' = "update_stake_pool"
          /\ UNCHANGED <<ret, err, failed_at>>
       \/ \E e \in FetchErrors : Panic(e)
    /\ UNCHANGED <<ledger, chain_vars, update_vars, command_vars>>

(***************************************************************************)
(* update_stake_pool.                                                      *)
(***************************************************************************)
\* the encoder's two vectors and the split_off of the last update instruction
update_stake_pool ==
    /\ pc = "update_stake_pool"
    /\ \/ \E n \in 0..MaxUpdateInstructions :
            /\ update_list_instructions' =
                   IF n > 0 THEN SubSeq(UpdateListInstructions(n), 1, n - 1)
                   ELSE UpdateListInstructions(n)
            /\ last_instruction' =
                   IF n > 0 THEN SubSeq(UpdateListInstructions(n), n, n) ELSE <<>>
            /\ final_instructions' = FinalInstructions
            /\ update_fetched_at' = Some(Len(ledger))
            /\ pc' = IF n > 0 THEN "update_list" ELSE "update_final"
            /\ UNCHANGED <<ret, err, failed_at>>
       \/ /\ \E e \in FetchErrors : Panic(e)
          /\ UNCHANGED <<update_list_instructions, last_instruction, final_instructions,
                         update_fetched_at>>
    /\ UNCHANGED <<next_update, ledger, chain_vars, command_vars>>

\* a loop that waits for the confirmation of every update
update_list_send_waiting ==
    /\ pc = "update_list"
    /\ next_update <= Len(update_list_instructions)
    /\ send_instructions(<<update_list_instructions[next_update]>>, payer_keypair,
                         <<payer_keypair>>, TRUE, "update_list")
    /\ next_update' = IF pc' = "failed" THEN next_update ELSE next_update + 1
    /\ UNCHANGED <<update_list_instructions, last_instruction, final_instructions,
                   update_fetched_at, chain_vars, command_vars>>

\* one turn of `for instruction in update_list_instructions`
update_list_send ==
    /\ pc = "update_list"
    /\ next_update <= Len(update_list_instructions)
    /\ send_instructions(<<update_list_instructions[next_update]>>, payer_keypair,
                         <<payer_keypair>>, FALSE, "update_list")
    /\ next_update' = IF pc' = "failed" THEN next_update ELSE next_update + 1
    /\ UNCHANGED <<update_list_instructions, last_instruction, final_instructions,
                   update_fetched_at, chain_vars, command_vars>>

\* send_instructions(.., &last_instruction, .., true) after the loop
update_last_send ==
    /\ pc = "update_list"
    /\ next_update > Len(update_list_instructions)
    /\ send_instructions(last_instruction, payer_keypair, <<payer_keypair>>, TRUE,
                         "update_final")
    /\ UNCHANGED <<update_vars, chain_vars, command_vars>>

\* a pool-level update that is sent without waiting for its confirmation
update_final_send_nowait ==
    /\ pc = "update_final"
    /\ send_instructions(final_instructions, payer_keypair, <<payer_keypair>>, FALSE,
                         "command")
    /\ UNCHANGED <<update_vars, chain_vars, command_vars>>

\* send_instructions(.., &final_instructions, .., true)
update_final_send ==
    /\ pc = "update_final"
    /\ send_instructions(final_instructions, payer_keypair, <<payer_keypair>>, TRUE,
                         "command")
    /\ UNCHANGED <<update_vars, chain_vars, command_vars>>

(***************************************************************************)
(* deposit_sol.                                                            *)
(***************************************************************************)
\* let user_sol_transfer = Keypair::new()
user_sol_transfer == Keypair_new(run)

\* vec![&fee_payer, &user_sol_transfer, &data.payer_keypair], where fee_payer
\* is a clone of the payer keypair
deposit_signers == <<payer_keypair, user_sol_transfer, payer_keypair>>

\* the two instructions pushed in the other order
deposit_instructions_swapped(pool, amount) ==
    LET pool_token_receiver_account ==
            get_associated_token_address(payer_keypair, pool.pool_mint)
        withdraw_authority ==
            find_withdraw_authority_program_address(spl_stake_pool_id, stake_pool_pubkey)
    IN  << deposit_sol_instruction(spl_stake_pool_id, stake_pool_pubkey,
               withdraw_authority, pool.reserve_stake, user_sol_transfer,
               pool_token_receiver_account, pool.manager_fee_account,
               pool_token_receiver_account, pool.pool_mint, spl_token_id, amount),
           transfer(payer_keypair, user_sol_transfer, amount) >>

\* a deposit whose referrer is the token account of the ephemeral key
deposit_instructions_other_referrer(pool, amount) ==
    LET pool_token_receiver_account ==
            get_associated_token_address(payer_keypair, pool.pool_mint)
        withdraw_authority ==
            find_withdraw_authority_program_address(spl_stake_pool_id, stake_pool_pubkey)
    IN  << transfer(payer_keypair, user_sol_transfer, amount),
           deposit_sol_instruction(spl_stake_pool_id, stake_pool_pubkey,
               withdraw_authority, pool.reserve_stake, user_sol_transfer,
               pool_token_receiver_account, pool.manager_fee_account,
               get_associated_token_address(user_sol_transfer, pool.pool_mint),
               pool.pool_mint, spl_token_id, amount) >>

\* the instructions vector of deposit_sol: the transfer, then the deposit
deposit_instructions(pool, amount) ==
    LET pool_token_receiver_account ==
            get_associated_token_address(payer_keypair, pool.pool_mint)
        referrer_token_account == pool_token_receiver_account
        withdraw_authority ==
            find_withdraw_authority_program_address(spl_stake_pool_id, stake_pool_pubkey)
    IN  << transfer(payer_keypair, user_sol_transfer, amount),
           deposit_sol_instruction(spl_stake_pool_id, stake_pool_pubkey,
               withdraw_authority, pool.reserve_stake, user_sol_transfer,
               pool_token_receiver_account, pool.manager_fee_account,
               referrer_token_account, pool.pool_mint, spl_token_id, amount) >>

\* a deposit built from the pool state update_stake_pool had fetched
deposit_sol_reusing_snapshot ==
    /\ pc = "command"
    /\ args.command = "DepositSol"
    /\ \/ /\ \E e \in FetchErrors : Panic(e)
          /\ UNCHANGED <<ledger, stake_pool, lamports, command_fetched_at>>
       \/ /\ stake_pool' = Some(chain_stake_pool)
          /\ command_fetched_at' = update_fetched_at
          /\ lamports' = Some(sol_to_lamports(args.amount))
          /\ send_instructions(
                 deposit_instructions(chain_stake_pool, sol_to_lamports(args.amount)),
                 payer_keypair, deposit_signers, TRUE, "deposit_print")
    /\ UNCHANGED <<validator_list, validator_stake_info, chain_vars, update_vars>>

\* get_stake_pool, sol_to_lamports, the two instructions, send_instructions
deposit_sol ==
    /\ pc = "command"
    /\ args.command = "DepositSol"
    /\ \/ /\ \E e \in FetchErrors : Panic(e)
          /\ UNCHANGED <<ledger, stake_pool, lamports, command_fetched_at>>
       \/ /\ stake_pool' = Some(chain_stake_pool)
          /\ command_fetched_at' = Some(Len(ledger))
          /\ lamports' = Some(sol_to_lamports(args.amount))
          /\ send_instructions(
                 deposit_instructions(chain_stake_pool, sol_to_lamports(args.amount)),
                 payer_keypair, deposit_signers, TRUE, "deposit_print")
    /\ UNCHANGED <<validator_list, validator_stake_info, chain_vars, update_vars>>

\* print_stake_pool_financials(data) at the end of deposit_sol
deposit_print ==
    /\ pc = "deposit_print"
    /\ \/ /\ pc' = "done"
          /\ UNCHANGED <<ret, err, failed_at>>
       \/ \E e \in FetchErrors : Panic(e)
    /\ UNCHANGED <<ledger, chain_vars, update_vars, command_vars>>

(***************************************************************************)
(* increase_validator_stake_with_vote, decrease_validator_stake_with_vote. *)
(***************************************************************************)
\* vec![&data.payer_keypair, &data.payer_keypair]
stake_signers == <<payer_keypair, payer_keypair>>

\* the instruction either function builds from the entry it found
stake_instruction(kind, pool, vote_account, amount, info) ==
    StakeAdjustment(kind, spl_stake_pool_id, pool, stake_pool_pubkey, vote_account,
                    amount, NonZeroU32_new(info.validator_seed_suffix),
                    info.transient_seed_suffix, 0)

\* the body the two functions share, `kind` being the encoder each calls
validator_stake_with_vote(kind) ==
    /\ \/ /\ \E e \in FetchErrors : Panic(e)
          /\ UNCHANGED <<ledger, command_vars>>
       \/ /\ stake_pool' = Some(chain_stake_pool)
          /\ command_fetched_at' = Some(Len(ledger))
          /\ lamports' = Some(sol_to_lamports(args.amount))
          /\ validator_list' = Some(chain_validator_list)
          /\ validator_stake_info' = find(chain_validator_list, args.vote_acount)
          /\ IF find(chain_validator_list, args.vote_acount) = None
             THEN /\ Panic("ValidatorNotFound")
                  /\ ledger' = ledger
             ELSE send_instructions(
                      <<stake_instruction(kind, chain_stake_pool, args.vote_acount,
                            sol_to_lamports(args.amount),
                            find(chain_validator_list, args.vote_acount)[1])>>,
                      payer_keypair, stake_signers, TRUE, "stake_info_print")
    /\ UNCHANGED <<chain_vars, update_vars>>

\* an increase that calls the encoder of the decrease
increase_validator_stake_with_vote_decreasing ==
    /\ pc = "command"
    /\ args.command = "IncreaseValidatorStake"
    /\ validator_stake_with_vote("DecreaseAdditionalValidatorStake")

increase_validator_stake_with_vote ==
    /\ pc = "command"
    /\ args.command = "IncreaseValidatorStake"
    /\ validator_stake_with_vote("IncreaseAdditionalValidatorStake")

decrease_validator_stake_with_vote ==
    /\ pc = "command"
    /\ args.command = "DecreaseValidatorStake"
    /\ validator_stake_with_vote("DecreaseAdditionalValidatorStake")

\* print_validator_stake_info(validator_stake_info) after the transaction
stake_info_print ==
    /\ pc = "stake_info_print"
    /\ pc' = "done"
    /\ UNCHANGED <<ret, err, failed_at, ledger, chain_vars, update_vars, command_vars>>

Next ==
    \/ main
    \/ update_stake_pool
    \/ update_list_send
    \/ update_last_send
    \/ update_final_send
    \/ deposit_sol
    \/ deposit_print
    \/ increase_validator_stake_with_vote
    \/ decrease_validator_stake_with_vote
    \/ stake_info_print
    \/ confirm_transaction
    \/ confirm_timeout
    \/ ledger_confirm

Spec == Init /\ [][Next]_vars

(***************************************************************************)
(* The invocation's own steps: every action but the ledger's.  Each is a   *)
(* call that returns (a result, an error or a timeout), so the process     *)
(* does not stand still while one of them is possible.                     *)
(***************************************************************************)
ProgramStep ==
    \/ main
    \/ update_stake_pool
    \/ update_list_send
    \/ update_last_send
    \/ update_final_send
    \/ deposit_sol
    \/ deposit_print
    \/ increase_validator_stake_with_vote
    \/ decrease_validator_stake_with_vote
    \/ stake_info_print
    \/ confirm_transaction
    \/ confirm_timeout

FairSpec == Spec /\ WF_vars(ProgramStep)

(***************************************************************************)
(* The caller runs the command line again, with the same arguments, after  *)
(* an invocation that failed: a new process, whose locals start afresh,    *)
(* against the ledger the failed one left.                                 *)
(***************************************************************************)
rerun ==
    /\ pc = "failed"
    /\ run < MaxRuns
    /\ run' = run + 1
    /\ pc' = "main"
    /\ ret' = "none"
    /\ err' = "none"
    /\ failed_at' = "none"
    /\ update_list_instructions' = <<>>
    /\ last_instruction' = <<>>
    /\ final_instructions' = <<>>
    /\ next_update' = 1
    /\ stake_pool' = None
    /\ validator_list' = None
    /\ lamports' = None
    /\ validator_stake_info' = None
    /\ update_fetched_at' = None
    /\ command_fetched_at' = None
    /\ UNCHANGED <<args, chain_stake_pool, chain_validator_list, ledger>>

NextRerun == Next \/ rerun

\* the request that is run again: any subcommand, for one SOL
InitRerun ==
    /\ Init
    /\ args.amount = F64Finite(FALSE, <<0, 1>>, 0)

SpecRerun == InitRerun /\ [][NextRerun]_vars

(***************************************************************************)
(* Vocabulary of the properties.                                           *)
(***************************************************************************)
Kinds(k) ==
    { ledger[k].tx.instructions[i].kind : i \in 1..Len(ledger[k].tx.instructions) }

ValidatorUpdateTx(k) == "UpdateValidatorListBalance" \in Kinds(k)

PoolUpdateTx(k) ==
    Kinds(k) \cap {"UpdateStakePoolBalance", "CleanupRemovedValidatorEntries"} # {}

MaintenanceTx(k) == ValidatorUpdateTx(k) \/ PoolUpdateTx(k)

DepositTx(k) == Kinds(k) \cap {"Transfer", "DepositSol"} # {}

StakeTx(k) ==
    Kinds(k) \cap {"IncreaseAdditionalValidatorStake",
                   "DecreaseAdditionalValidatorStake"} # {}

CommandTx(k) == DepositTx(k) \/ StakeTx(k)

\* where the invocation stands, or stood when it panicked
Where == IF pc = "failed" THEN failed_at ELSE pc

\* update_stake_pool has obtained the encoder's vectors
Planned == final_instructions # <<>>

\* the validator-update instructions the encoder returned, in its order
PlannedUpdates == update_list_instructions \o last_instruction

\* update_stake_pool has returned
MaintenanceOver ==
    \/ Where \in {"command", "deposit_print", "stake_info_print", "done"}
    \/ Where = "confirming" /\ ret \in {"deposit_print", "stake_info_print"}

StakeCommands == {"IncreaseValidatorStake", "DecreaseValidatorStake"}

\* the subcommand fetched a validator list without the requested vote account
VoteAccountAbsent ==
    /\ args.command \in StakeCommands
    /\ validator_list # None
    /\ \A i \in 1..Len(validator_list[1]) :
           validator_list[1][i].vote_account_address # args.vote_acount

(***************************************************************************)
(* C1.  A maintenance run whose encoder returned N validator-update        *)
(* instructions hands them to the ledger in list order, each alone in its  *)
(* own transaction and once, the first N-1 without waiting and the Nth     *)
(* waiting, then one waiting transaction of the pool-level instructions;   *)
(* with N = 0 only that last one.                                          *)
(***************************************************************************)
ExpectedBatch(k) ==
    IF k <= Len(PlannedUpdates)
    THEN [instructions |-> <<PlannedUpdates[k]>>, wait |-> (k = Len(PlannedUpdates))]
    ELSE [instructions |-> final_instructions, wait |-> TRUE]

C1_MaintenanceOrder ==
    Planned =>
        /\ \A k \in 1..Len(ledger) :
               IF k <= Len(PlannedUpdates) + 1
               THEN /\ ledger[k].tx.instructions = ExpectedBatch(k).instructions
                    /\ ledger[k].wait = ExpectedBatch(k).wait
               ELSE ~MaintenanceTx(k)
        /\ pc = "update_list" => Len(ledger) = next_update - 1
        /\ pc = "update_final" => Len(ledger) = Len(PlannedUpdates)
        /\ MaintenanceOver => Len(ledger) >= Len(PlannedUpdates) + 1

C1_Witness ==
    /\ pc = "command"
    /\ Len(PlannedUpdates) = 2
    /\ Len(ledger) = 3

(***************************************************************************)
(* C2.  When the pool-level transaction is handed to the ledger, every     *)
(* validator-update transaction of the run is confirmed.  (A confirmed     *)
(* transaction stays confirmed, so a later state with an unconfirmed       *)
(* update shows one at the moment of submission too.)                      *)
(***************************************************************************)
C2_AllUpdatesConfirmed ==
    \A k \in 1..Len(ledger) :
        PoolUpdateTx(k) =>
            \A j \in 1..(k - 1) :
                ValidatorUpdateTx(j) => ledger[j].status = "confirmed"

(***************************************************************************)
(* C3.  The subcommand's transaction is handed to the ledger only after    *)
(* the pool-level maintenance transaction was confirmed, and no            *)
(* maintenance transaction comes after it.                                 *)
(***************************************************************************)
C3_CommandAfterMaintenance ==
    \A k \in 1..Len(ledger) :
        CommandTx(k) =>
            /\ \E j \in 1..(k - 1) : PoolUpdateTx(j) /\ ledger[j].status = "confirmed"
            /\ \A j \in 1..Len(ledger) : MaintenanceTx(j) => j < k

C3_Witness ==
    /\ args.command = "IncreaseValidatorStake"
    /\ \E k \in 1..Len(ledger) : CommandTx(k) /\ ledger[k].status = "confirmed"

(***************************************************************************)
(* C4.  An increase or decrease whose vote account is in no entry of the   *)
(* fetched validator list fails with ValidatorNotFound; no increase or     *)
(* decrease transaction is handed to the ledger.                           *)
(***************************************************************************)
C4_ValidatorNotFound ==
    VoteAccountAbsent =>
        /\ pc = "failed"
        /\ err = "ValidatorNotFound"
        /\ \A k \in 1..Len(ledger) : ~StakeTx(k)

C4_Witness ==
    /\ VoteAccountAbsent
    /\ args.command = "IncreaseValidatorStake"
    /\ Len(validator_list[1]) > 0

(***************************************************************************)
(* C5, as claimed.  A decrease for an absent vote account aborts with      *)
(* ValidatorNotFound and the invocation hands no transaction at all to the *)
(* ledger.                                                                 *)
(***************************************************************************)
C5_NoTransactionAtAll ==
    (args.command = "DecreaseValidatorStake" /\ err = "ValidatorNotFound") =>
        ledger = <<>>

(***************************************************************************)
(* C5, amended.  A decrease for an absent vote account aborts with         *)
(* ValidatorNotFound after the maintenance plan ran: the ledger was handed *)
(* the maintenance transactions, the last of them confirmed, and nothing   *)
(* else.                                                                   *)
(***************************************************************************)
C5_OnlyMaintenance ==
    (args.command = "DecreaseValidatorStake" /\ VoteAccountAbsent) =>
        /\ pc = "failed"
        /\ err = "ValidatorNotFound"
        /\ Len(ledger) = Len(PlannedUpdates) + 1
        /\ \A k \in 1..Len(ledger) : MaintenanceTx(k)
        /\ PoolUpdateTx(Len(ledger))
        /\ ledger[Len(ledger)].status = "confirmed"

C5_Witness ==
    /\ args.command = "DecreaseValidatorStake"
    /\ VoteAccountAbsent
    /\ pc = "failed"
    /\ Len(ledger) = 3

(***************************************************************************)
(* C6.  A deposit hands the ledger exactly one transaction, of exactly two *)
(* instructions: the system transfer from the payer to the ephemeral       *)
(* account first, the pool deposit second; the call waits for it.          *)
(***************************************************************************)
DepositSent ==
    /\ args.command = "DepositSol"
    /\ \/ Where \in {"deposit_print", "done"}
       \/ Where = "confirming" /\ ret = "deposit_print"

C6_DepositBatch ==
    /\ \A k \in 1..Len(ledger) :
           DepositTx(k) =>
               /\ Len(ledger[k].tx.instructions) = 2
               /\ ledger[k].tx.instructions[1].kind = "Transfer"
               /\ ledger[k].tx.instructions[1].from = payer_keypair
               /\ ledger[k].tx.instructions[1].to = user_sol_transfer
               /\ ledger[k].tx.instructions[2].kind = "DepositSol"
               /\ ledger[k].wait
    /\ Cardinality({ k \in 1..Len(ledger) : DepositTx(k) }) <= 1
    /\ DepositSent => Cardinality({ k \in 1..Len(ledger) : DepositTx(k) }) = 1

C6_Witness ==
    /\ args.command = "DepositSol"
    /\ pc = "done"
    /\ DepositTx(Len(ledger))

(***************************************************************************)
(* C7.  The validator seed of an increase or decrease instruction is       *)
(* absent exactly when the found entry's validator_seed_suffix is 0, and   *)
(* otherwise is that suffix; its transient seed is the entry's             *)
(* transient_seed_suffix.                                                  *)
(***************************************************************************)
EntryOf(vote_account) ==
    CHOOSE e \in SeqRange(validator_list[1]) : e.vote_account_address = vote_account

C7_Seeds ==
    \A k \in 1..Len(ledger) :
        StakeTx(k) =>
            LET ins == ledger[k].tx.instructions[1]
                entry == EntryOf(args.vote_acount)
            IN  /\ ins.vote_account = args.vote_acount
                /\ entry.vote_account_address = args.vote_acount
                /\ (ins.validator_stake_seed = None) <=> (entry.validator_seed_suffix = 0)
                /\ entry.validator_seed_suffix # 0 =>
                       ins.validator_stake_seed = Some(entry.validator_seed_suffix)
                /\ ins.transient_stake_seed = entry.transient_seed_suffix

C7_Witness ==
    /\ args.command = "DecreaseValidatorStake"
    /\ \E k \in 1..Len(ledger) :
           /\ StakeTx(k)
           /\ ledger[k].tx.instructions[1].validator_stake_seed = None
           /\ ledger[k].tx.instructions[1].transient_stake_seed = 7

(***************************************************************************)
(* C8.  With a negative or non-finite amount the subcommand fails and no   *)
(* transaction of the subcommand is handed to the ledger.                  *)
(***************************************************************************)
InvalidAmount(sol) == sol.cls # "fin" \/ sol.neg

C8_InvalidAmountRejected ==
    InvalidAmount(args.amount) => \A k \in 1..Len(ledger) : ~CommandTx(k)

(***************************************************************************)
(* C9.  Every transaction carries exactly the signatures its instructions  *)
(* and fee payer require: the deposit transaction those of the payer and   *)
(* the ephemeral account, every maintenance and stake transaction that of  *)
(* the payer alone.                                                        *)
(***************************************************************************)
C9_Signatures ==
    \A k \in 1..Len(ledger) :
        /\ ledger[k].tx.signatures =
               RequiredSigners(ledger[k].tx.instructions, ledger[k].tx.fee_payer)
        /\ ledger[k].tx.signatures =
               IF DepositTx(k) THEN {payer_keypair, user_sol_transfer}
               ELSE {payer_keypair}

C9_Witness ==
    \E k \in 1..Len(ledger) : DepositTx(k) /\ ledger[k].status = "confirmed"

(***************************************************************************)
(* C10.  A call of send_instructions hands the ledger one transaction, of  *)
(* all the instructions of its batch in order, and never sends again: a    *)
(* rejection or a missing confirmation ends the invocation with the error. *)
(***************************************************************************)
\* the batch of the call of send_instructions the invocation is about to make
BatchMatches(instructions) ==
    IF pc = "update_list" /\ next_update <= Len(update_list_instructions)
    THEN instructions = <<update_list_instructions[next_update]>>
    ELSE IF pc = "update_list" THEN instructions = last_instruction
    ELSE IF pc = "update_final" THEN instructions = final_instructions
    ELSE /\ pc = "command"
         /\ IF args.command = "DepositSol"
            THEN <<instructions[1].kind, instructions[2].kind>> = <<"Transfer", "DepositSol">>
            ELSE /\ Len(instructions) = 1
                 /\ instructions[1].kind \in {"IncreaseAdditionalValidatorStake",
                                              "DecreaseAdditionalValidatorStake"}

C10_OneTransactionPerCall ==
    [][ /\ Len(ledger') \in {Len(ledger), Len(ledger) + 1}
        /\ \A k \in 1..Len(ledger) : ledger'[k].tx = ledger[k].tx
        /\ Len(ledger') = Len(ledger) + 1 =>
               /\ BatchMatches(ledger'[Len(ledger')].tx.instructions)
               /\ ledger'[Len(ledger')].status = "rejected" =>
                      pc' = "failed" /\ err' = "SubmissionError"
        /\ pc \in {"confirming", "failed", "done"} => Len(ledger') = Len(ledger)
      ]_vars

C10_Witness ==
    /\ pc = "failed"
    /\ err = "SubmissionError"
    /\ Len(ledger) = 2
    /\ ledger[2].status = "rejected"

(***************************************************************************)
(* C11.  A call with wait=true returns only once the ledger reported its   *)
(* transaction confirmed, and otherwise ends with ConfirmationTimeout; a   *)
(* call with wait=false returns when the node has accepted the             *)
(* transaction, confirmed or not.                                          *)
(***************************************************************************)
C11_WaitSemantics ==
    [][ /\ (pc = "confirming" /\ pc' # "confirming") =>
               \/ /\ pc' = ret
                  /\ ledger[Len(ledger)].status = "confirmed"
               \/ /\ pc' = "failed"
                  /\ err' = "ConfirmationTimeout"
                  /\ ledger[Len(ledger)].status # "confirmed"
        /\ (Len(ledger') = Len(ledger) + 1
                /\ ledger'[Len(ledger')].status = "pending") =>
               IF ledger'[Len(ledger')].wait
               THEN pc' = "confirming"
               ELSE pc' \notin {"confirming", "failed"}
      ]_vars

C11_Witness ==
    /\ pc = "update_list"
    /\ next_update = 2
    /\ ~ledger[1].wait
    /\ ledger[1].status = "pending"

(***************************************************************************)
(* C12.  Any error (a failed fetch or decode, a missing validator, an      *)
(* invalid amount, a rejected submission, a confirmation timeout) ends the *)
(* invocation at once: it is failed, stays failed with that error, and no  *)
(* transaction is handed to the ledger afterwards.                         *)
(***************************************************************************)
C12_ErrorsEndTheInvocation ==
    [][ /\ (pc' = "failed") <=> (err' # "none")
        /\ pc = "failed" =>
               /\ pc' = "failed"
               /\ err' = err
               /\ Len(ledger') = Len(ledger)
        /\ (pc = "command" /\ pc' # "command" /\ InvalidAmount(args.amount)) =>
               /\ pc' = "failed"
               /\ Len(ledger') = Len(ledger)
      ]_vars

(***************************************************************************)
(* Exact arithmetic for the properties of the conversion: a * 2^k without  *)
(* saturation, and the exact product m * 10^9 of an amount's mantissa.     *)
(***************************************************************************)
RECURSIVE LimbsTimesPow2(_, _)
LimbsTimesPow2(a, k) ==
    IF k = 0 \/ a = U64_ZERO THEN a ELSE LimbsTimesPow2(LimbsDouble(a), k - 1)

MantissaTimesLamportsPerSol(sol) == <<sol.m[1], sol.m[2], 0>>

\* L = floor(sol * 10^9), the product taken exactly
IsFloorOfProduct(L, sol) ==
    IF sol.e >= 0
    THEN L = LimbsTimesPow2(MantissaTimesLamportsPerSol(sol), sol.e)
    ELSE /\ ~LimbsGreater(LimbsTimesPow2(L, -sol.e), MantissaTimesLamportsPerSol(sol))
         /\ LimbsGreater(LimbsTimesPow2(LimbsIncrement(L), -sol.e),
                         MantissaTimesLamportsPerSol(sol))

LimbsAdd(a, b) ==
    LET s0 == a[3] + b[3]
        s1 == a[2] + b[2] + (s0 \div LimbBase)
        s2 == a[1] + b[1] + (s1 \div LimbBase)
    IN  <<s2, s1 % LimbBase, s0 % LimbBase>>

\* L = floor(sol * 10^9) + 1 and sol * 10^9 is no integer: L - 1 <= product < L
IsFloorOfProductPlusOne(L, sol) ==
    /\ sol.e < 0
    /\ LimbsGreater(LimbsTimesPow2(L, -sol.e), MantissaTimesLamportsPerSol(sol))
    /\ ~LimbsGreater(LimbsTimesPow2(L, -sol.e),
                     LimbsAdd(MantissaTimesLamportsPerSol(sol),
                              LimbsTimesPow2(<<0, 0, 1>>, -sol.e)))

\* the exact product sol * 10^9 exceeds u64::MAX
ProductExceedsU64(sol) ==
    /\ sol.e >= 0
    /\ LimbsGreater(LimbsTimesPow2(MantissaTimesLamportsPerSol(sol), sol.e), U64_MAX)

\* the product m * 10^9 * 2^e needs no rounding to 53 bits
ProductIsExact(sol) == LimbsGreater(TwoPow53, MantissaTimesLamportsPerSol(sol))

InstructionAmount(ins) == IF ins.kind = "DepositSol" THEN ins.amount ELSE ins.lamports

\* the amounts of the instructions of the subcommand's transactions
CommandAmounts ==
    UNION { { InstructionAmount(ledger[k].tx.instructions[i]) :
                i \in 1..Len(ledger[k].tx.instructions) } :
            k \in { j \in 1..Len(ledger) : CommandTx(j) } }

(***************************************************************************)
(* C14, as claimed.  For every non-negative finite amount x the amount of  *)
(* the built instructions is floor(x * 10^9), also when the product        *)
(* exceeds the 64-bit unsigned range.                                      *)
(***************************************************************************)
C14_FloorOfProduct ==
    ~InvalidAmount(args.amount) =>
        \A L \in CommandAmounts : IsFloorOfProduct(L, args.amount)

(***************************************************************************)
(* C14, amended.  For every non-negative finite amount x the amount of the *)
(* built instructions is the double product x * 10^9 truncated toward      *)
(* zero: floor(x * 10^9) when the product needs no rounding and fits u64   *)
(* (1.0 gives 1_000_000_000); floor(x * 10^9) or, when the product rounds  *)
(* up to an integer, one more, for amounts below 2^53 lamports (2.3 gives  *)
(* 2_300_000_000); u64::MAX when the product exceeds the u64 range.        *)
(***************************************************************************)
C14_TruncatedDoubleProduct ==
    ~InvalidAmount(args.amount) =>
        \A L \in CommandAmounts :
            /\ args.amount = F64Finite(FALSE, <<0, 1>>, 0) => L = <<0, 1, 0>>
            /\ args.amount = F64Finite(FALSE, <<2589569, 785738035>>, -50) =>
                   L = <<0, 2, 300000000>>
            /\ ProductExceedsU64(args.amount) => L = U64_MAX
            /\ (~ProductExceedsU64(args.amount) /\ ProductIsExact(args.amount)) =>
                   IsFloorOfProduct(L, args.amount)
            /\ (~ProductExceedsU64(args.amount) /\ LimbsGreater(TwoPow53, L)) =>
                   \/ IsFloorOfProduct(L, args.amount)
                   \/ IsFloorOfProductPlusOne(L, args.amount)

C14_Witness ==
    /\ args.command = "IncreaseValidatorStake"
    /\ args.amount = F64Finite(FALSE, <<0, 3>>, -31)
    /\ CommandAmounts = {<<0, 0, 1>>}

(***************************************************************************)
(* C13.  A failed invocation followed by a complete re-run never makes the *)
(* requested operation take effect on the ledger more than once: of the    *)
(* transactions that carry the deposit, the increase or the decrease, the  *)
(* ledger confirms at most one.                                            *)
(***************************************************************************)
C13_EffectAtMostOnce ==
    Cardinality({ k \in 1..Len(ledger) :
                    CommandTx(k) /\ ledger[k].status = "confirmed" }) <= 1

(***************************************************************************)
(* C15.  The pool state and the validator list the subcommand builds its   *)
(* instructions from are fetched after the pool-level update, the last     *)
(* transaction of the maintenance plan, was confirmed; the snapshot        *)
(* update_stake_pool planned the maintenance from, fetched before any      *)
(* maintenance transaction was submitted, is not the one the subcommand    *)
(* uses.                                                                   *)
(***************************************************************************)
C15_FreshSnapshots ==
    command_fetched_at # None =>
        /\ update_fetched_at # None
        /\ command_fetched_at # update_fetched_at
        /\ command_fetched_at[1] \in 1..Len(ledger)
        /\ PoolUpdateTx(command_fetched_at[1])
        /\ ledger[command_fetched_at[1]].status = "confirmed"
        /\ \A k \in 1..Len(ledger) :
               /\ MaintenanceTx(k) =>
                      update_fetched_at[1] < k /\ k <= command_fetched_at[1]
               /\ CommandTx(k) => command_fetched_at[1] < k
        /\ stake_pool = Some(chain_stake_pool)
        /\ validator_list \in {None, Some(chain_validator_list)}

C15_Witness ==
    /\ command_fetched_at = Some(3)
    /\ update_fetched_at = Some(0)
    /\ args.command = "DecreaseValidatorStake"
    /\ validator_list # None
    /\ Len(ledger) = 4
    /\ ledger[4].status = "confirmed"

(***************************************************************************)
(* C16.  In every deposit the transfer's destination and the deposit       *)
(* instruction's funding source are the same ephemeral account, generated  *)
(* inside that deposit, which is no other key of the invocation and        *)
(* appears in no other transaction; the transfer amount equals the deposit *)
(* amount; the pool tokens go to the payer's associated token account for  *)
(* the pool mint of the fetched pool state; the referrer token account is  *)
(* that destination.                                                       *)
(***************************************************************************)
\* the wallet, program and pool keys an instruction names
InstructionKeys(ins) ==
    ins.signers \cup
    (IF ins.kind = "Transfer" THEN {ins.from, ins.to}
     ELSE IF ins.kind = "DepositSol"
          THEN {ins.program_id, ins.stake_pool, ins.reserve_stake, ins.lamports_from,
                ins.manager_fee_account, ins.pool_mint, ins.token_program_id}
     ELSE IF ins.kind \in {"IncreaseAdditionalValidatorStake",
                           "DecreaseAdditionalValidatorStake"}
          THEN {ins.program_id, ins.stake_pool, ins.staker, ins.vote_account}
     ELSE {})

TransactionKeys(k) ==
    {ledger[k].tx.fee_payer} \cup ledger[k].tx.signatures \cup
    UNION { InstructionKeys(ledger[k].tx.instructions[i]) :
              i \in 1..Len(ledger[k].tx.instructions) }

C16_DepositAddressing ==
    \A k \in 1..Len(ledger) :
        DepositTx(k) =>
            /\ stake_pool # None
            /\ ledger[k].tx.instructions[1].to = ledger[k].tx.instructions[2].lamports_from
            /\ ledger[k].tx.instructions[1].to = Keypair_new(run)
            /\ ledger[k].tx.instructions[1].to \notin
                   {payer_keypair, other_staker, stake_pool_pubkey, spl_stake_pool_id,
                    spl_token_id, stake_pool[1].manager, stake_pool[1].pool_mint,
                    stake_pool[1].reserve_stake, stake_pool[1].manager_fee_account,
                    stake_pool[1].validator_list} \cup VoteAccounts
            /\ \A j \in 1..Len(ledger) :
                   j # k => ledger[k].tx.instructions[1].to \notin TransactionKeys(j)
            /\ ledger[k].tx.instructions[1].lamports = ledger[k].tx.instructions[2].amount
            /\ ledger[k].tx.instructions[2].pool_tokens_to =
                   get_associated_token_address(payer_keypair, stake_pool[1].pool_mint)
            /\ ledger[k].tx.instructions[2].referrer_pool_tokens_account =
                   ledger[k].tx.instructions[2].pool_tokens_to

C16_Witness ==
    /\ pc = "deposit_print"
    /\ Len(ledger) = 4
    /\ DepositTx(4)
    /\ ledger[4].status = "confirmed"
    /\ ledger[4].tx.instructions[2].amount = <<0, 2, 300000000>>

(***************************************************************************)
(* C17.  A successful stake adjustment has submitted exactly one           *)
(* transaction of its own, confirmed after a wait, holding exactly one     *)
(* instruction: an increase for increase-validator-stake, a decrease for   *)
(* decrease-validator-stake, for the requested vote account, the converted *)
(* amount and a last argument of 0.                                        *)
(***************************************************************************)
C17_StakeAdjustment ==
    (args.command \in StakeCommands /\ pc = "done") =>
        /\ Cardinality({ k \in 1..Len(ledger) : CommandTx(k) }) = 1
        /\ StakeTx(Len(ledger))
        /\ Len(ledger[Len(ledger)].tx.instructions) = 1
        /\ ledger[Len(ledger)].wait
        /\ ledger[Len(ledger)].status = "confirmed"
        /\ ledger[Len(ledger)].tx.instructions[1].kind =
               (IF args.command = "IncreaseValidatorStake"
                THEN "IncreaseAdditionalValidatorStake"
                ELSE "DecreaseAdditionalValidatorStake")
        /\ ledger[Len(ledger)].tx.instructions[1].vote_account = args.vote_acount
        /\ ledger[Len(ledger)].tx.instructions[1].lamports = sol_to_lamports(args.amount)
        /\ ledger[Len(ledger)].tx.instructions[1].last_argument = 0

C17_Witness ==
    /\ args.command = "IncreaseValidatorStake"
    /\ pc = "done"
    /\ ledger[Len(ledger)].tx.instructions[1].lamports = <<0, 1, 0>>

(***************************************************************************)
(* C18.  As every call to the ledger returns, the invocation eventually    *)
(* reaches a terminal state, done or failed; it is done only when every    *)
(* transaction it submitted with wait (the last validator update if there  *)
(* is one, the pool-level update, the transaction of the subcommand) was   *)
(* confirmed.                                                              *)
(***************************************************************************)
WaitedConfirmed ==
    /\ \A k \in 1..Len(ledger) : ledger[k].wait => ledger[k].status = "confirmed"
    /\ Len(ledger) = Len(PlannedUpdates) + 2
    /\ PlannedUpdates # <<>> => ledger[Len(PlannedUpdates)].wait
    /\ PoolUpdateTx(Len(ledger) - 1) /\ ledger[Len(ledger) - 1].wait
    /\ CommandTx(Len(ledger)) /\ ledger[Len(ledger)].wait

C18_Terminates ==
    /\ <>(pc \in {"done", "failed"})
    /\ [](pc = "done" => WaitedConfirmed)

C18_Witness ==
    /\ pc = "done"
    /\ Len(ledger) = 4
    /\ ledger[1].status = "pending"
    /\ ledger[2].status = "confirmed"

====
